---- MODULE Spec2Model ----
(***************************************************************************)
(* Model of src/onion/dict.c: the AA-tree dictionary of the onion HTTP     *)
(* library.  The heap of onion_dict_node objects is a sequence indexed by  *)
(* node address; key and value strings are heap objects of their own with  *)
(* a free() counter, so that ownership by flag is observable.              *)
(***************************************************************************)
EXTENDS Integers, Sequences, FiniteSets, TLC

\* ---------------------------------------------------------------- bounds
\* Number of onion_dict_add calls in one run (= nodes ever allocated), with
\* copy-and-own flags (Spec) and with every flag combination (SpecFlags).
MaxAdds == 4
MaxAddsFlags == 3

\* ------------------------------------------------------------- constants
NULL == 0

\* enum onion_dict_flags_e of dict.h; the DUP flags include the FREE bit
\* (dict.c:94 "multiple bit flag, with FREE included").
OD_FREE_KEY == 2
OD_FREE_VALUE == 4
OD_DUP_KEY == 18
OD_DUP_VALUE == 36
OD_DUP_ALL == 54

\* Keys are C strings: sequences of non-zero unsigned bytes.  "A", "AB" and
\* a key starting with the byte 0xC8.
Keys == { <<65>>, <<65, 66>>, <<200>> }
KeysFlags == { <<65>>, <<200>> }

\* Flag arguments given to onion_dict_add: borrow both, own the key only,
\* own the value only, copy and own both.
FlagsIn == { 0, OD_FREE_KEY, OD_FREE_VALUE, OD_DUP_ALL }

\* ------------------------------------------------------------ C helpers
\* flags & mask, on non-negative integers.
RECURSIVE BitAnd(_, _)
BitAnd(a, b) ==
  IF a = 0 \/ b = 0 THEN 0
  ELSE (IF a % 2 = 1 /\ b % 2 = 1 THEN 1 ELSE 0) + 2 * BitAnd(a \div 2, b \div 2)

\* The byte at 1-based position i of a C string, 0 at the terminator.
ByteAt(s, i) == IF i <= Len(s) THEN s[i] ELSE 0

\* strcmp as the byte-difference implementation computes it: the difference
\* of the first differing bytes taken as unsigned char, in -255..255.
RECURSIVE strcmpFrom(_, _, _)
strcmpFrom(s1, s2, i) ==
  LET a == ByteAt(s1, i)
      b == ByteAt(s2, i)
  IN IF a # b THEN a - b
     ELSE IF a = 0 THEN 0
     ELSE strcmpFrom(s1, s2, i + 1)

strcmp(s1, s2) == strcmpFrom(s1, s2, 1)

\* Conversion of an int to signed char (8 bits, two's complement).
SignedChar(x) ==
  LET m == x % 256
  IN IF m >= 128 THEN m - 256 ELSE m

Min(a, b) == IF a < b THEN a ELSE b

\* ----------------------------------------------------------------- state
VARIABLES
  alive,     \* the onion_dict handle is allocated (until onion_dict_free)
  root,      \* dict->root: a node address or NULL
  nodes,     \* node heap: address -> [key, value, flags, level, left, right]
  nfree,     \* node address -> number of free(node) calls
  kstr,      \* key string address -> the bytes now at that address
  kfree,     \* key string address -> number of free() calls on it
  vstr,      \* value string address -> its content
  vfree,     \* value string address -> number of free() calls on it
  calls,     \* arguments of the add calls so far: [key, flags]
  refmap,    \* reference map: key -> value most recently added, or NULL
  dupAdded,  \* some add was called with a key that was present
  last       \* the last operation and what it returned: [op, key, ret]

vars == <<alive, root, nodes, nfree, kstr, kfree, vstr, vfree, calls, refmap, dupAdded, last>>

\* String addresses.  The i-th add is called with the caller's strings at
\* address ArgStr(i); strdup in that call returns the fresh address DupStr(i).
ArgStr(i) == 2 * i - 1
DupStr(i) == 2 * i

\* The memory the removal works on.
Mem == [h |-> nodes, nf |-> nfree, ks |-> kstr, kf |-> kfree, vf |-> vfree]

\* ------------------------------------------------------- node allocation
\* The data of a new node: key and value are the addresses of the strdup
\* copies when the DUP flags are set, the caller's addresses otherwise.
onion_dict_set_node_data(key, value, dupkey, dupvalue, flags) ==
  [key |-> IF BitAnd(flags, OD_DUP_KEY) = OD_DUP_KEY THEN dupkey ELSE key,
   value |-> IF BitAnd(flags, OD_DUP_VALUE) = OD_DUP_VALUE THEN dupvalue ELSE value,
   flags |-> flags]

onion_dict_node_new(key, value, dupkey, dupvalue, flags) ==
  LET d == onion_dict_set_node_data(key, value, dupkey, dupvalue, flags)
  IN [key |-> d.key, value |-> d.value, flags |-> d.flags,
      level |-> 1, left |-> NULL, right |-> NULL]

\* ------------------------------------------------------------- balancing
\* A tree operation returns the heap it leaves and the node it returns.
\* node->left = <returned node>;  node->right = <returned node>;
SetLeft(r, node) == [r.h EXCEPT ![node].left = r.ret]
SetRight(r, node) == [r.h EXCEPT ![node].right = r.ret]

\* t=node->left; node->left=t->right; t->right=node; return t;
RotateRight(h, node, t) ==
  [h |-> [h EXCEPT ![node].left = h[t].right, ![t].right = node], ret |-> t]

\* A skew that never rotates.
skew_NoRotate(h, node) == [h |-> h, ret |-> node]

skew(h, node) ==
  IF node = NULL \/ h[node].left = NULL \/ h[h[node].left].level # h[node].level
  THEN [h |-> h, ret |-> node]
  ELSE RotateRight(h, node, h[node].left)

\* The rotation of split without t->level++.
RotateLeft_NoPromote(h, node, t) ==
  [h |-> [h EXCEPT ![node].right = h[t].left, ![t].left = node], ret |-> t]

\* t=node->right; node->right=t->left; t->left=node; t->level++; return t;
RotateLeft(h, node, t) ==
  [h |-> [h EXCEPT ![node].right = h[t].left, ![t].left = node, ![t].level = @ + 1],
   ret |-> t]

split(h, node) ==
  IF node = NULL \/ h[node].right = NULL \/ h[h[node].right].right = NULL
     \/ h[node].level # h[h[h[node].right].right].level
  THEN [h |-> h, ret |-> node]
  ELSE RotateLeft(h, node, h[node].right)

\* if (should_be < node->level){ node->level=should_be; if (node->right &&
\* should_be < node->right->level) node->right->level=should_be; }
LowerTo(h, node, should_be) ==
  IF should_be < h[node].level
  THEN IF h[node].right # NULL /\ should_be < h[h[node].right].level
       THEN [h EXCEPT ![node].level = should_be, ![h[node].right].level = should_be]
       ELSE [h EXCEPT ![node].level = should_be]
  ELSE h

LevelOrZero(h, child) == IF child # NULL THEN h[child].level ELSE 0

\* decrease_level that forgets the + 1 of should_be.
decrease_level_OffByOne(h, node) ==
  LowerTo(h, node, Min(LevelOrZero(h, h[node].left), LevelOrZero(h, h[node].right)))

decrease_level(h, node) ==
  LowerTo(h, node, Min(LevelOrZero(h, h[node].left), LevelOrZero(h, h[node].right)) + 1)

\* ---------------------------------------------------------------- insert
RECURSIVE onion_dict_node_add(_, _, _, _)

\* The descent of an insert that overwrites a node with an equal key in place.
AddBelow_InPlace(h, ks, node, nnode, cmp) ==
  IF cmp = 0
  THEN [h EXCEPT ![node].key = h[nnode].key,
                 ![node].value = h[nnode].value,
                 ![node].flags = h[nnode].flags]
  ELSE IF cmp < 0
  THEN SetLeft(onion_dict_node_add(h, ks, h[node].left, nnode), node)
  ELSE SetRight(onion_dict_node_add(h, ks, h[node].right, nnode), node)

\* The descent of an insert that goes left on a greater key.
AddBelow_Reversed(h, ks, node, nnode, cmp) ==
  IF cmp > 0
  THEN SetLeft(onion_dict_node_add(h, ks, h[node].left, nnode), node)
  ELSE SetRight(onion_dict_node_add(h, ks, h[node].right, nnode), node)

\* if (cmp<0) node->left=onion_dict_node_add(node->left, nnode);
\* else node->right=onion_dict_node_add(node->right, nnode);
AddBelow(h, ks, node, nnode, cmp) ==
  IF cmp < 0
  THEN SetLeft(onion_dict_node_add(h, ks, h[node].left, nnode), node)
  ELSE SetRight(onion_dict_node_add(h, ks, h[node].right, nnode), node)

\* node=split(<returned node>);
SplitOf(r) == split(r.h, r.ret)

onion_dict_node_add(h, ks, node, nnode) ==
  IF node = NULL THEN [h |-> h, ret |-> nnode]
  ELSE SplitOf(skew(AddBelow(h, ks, node, nnode, strcmp(ks[h[nnode].key], ks[h[node].key])),
                    node))

\* Adds a value in the tree: the n-th call allocates node n.
onion_dict_add(h, ks, rt, n, flags) ==
  onion_dict_node_add(
    Append(h, onion_dict_node_new(ArgStr(n), ArgStr(n), DupStr(n), DupStr(n), flags)),
    ks, rt, n)

\* ---------------------------------------------------------------- remove
\* free() of a key string at address p: counted; the bytes at a freed
\* address are indeterminate, g gives what later reads of it will see.
FreeKey(m, g, p) ==
  [m EXCEPT !.kf[p] = Min(@ + 1, 2),
            !.ks[p] = IF p \in DOMAIN g THEN g[p] ELSE @]

FreeValue(m, p) == [m EXCEPT !.vf[p] = Min(@ + 1, 2)]

\* A removal that unlinks the node and forgets free(node).
FreeNode_Leak(m, node) == m

\* free(node);
FreeNode(m, node) == [m EXCEPT !.nf[node] = Min(@ + 1, 2)]

\* if (data->flags&OD_FREE_VALUE) free((char*)data->value);
FreeValueByFlag(m, flags, value) ==
  IF BitAnd(flags, OD_FREE_VALUE) # 0 THEN FreeValue(m, value) ELSE m

\* Data free that frees the key whatever the flags say.
onion_dict_node_data_free_AnyKey(m, g, node) ==
  FreeValueByFlag(FreeKey(m, g, m.h[node].key), m.h[node].flags, m.h[node].value)

onion_dict_node_data_free(m, g, node) ==
  FreeValueByFlag(IF BitAnd(m.h[node].flags, OD_FREE_KEY) # 0
                  THEN FreeKey(m, g, m.h[node].key)
                  ELSE m,
                  m.h[node].flags, m.h[node].value)

\* while (t->left) t=t->left;   and   while (t->right) t=t->right;
RECURSIVE Leftmost(_, _)
Leftmost(h, t) == IF h[t].left # NULL THEN Leftmost(h, h[t].left) ELSE t

RECURSIVE Rightmost(_, _)
Rightmost(h, t) == IF h[t].right # NULL THEN Rightmost(h, h[t].right) ELSE t

\* Relocation that leaves the donor's flags set.
MoveData_KeepFlags(h, node, t) ==
  [h EXCEPT ![node].key = h[t].key,
            ![node].value = h[t].value,
            ![node].flags = h[t].flags]

\* memcpy(&node->data, &t->data, sizeof(onion_dict_node_data)); t->data.flags=0;
MoveData(h, node, t) ==
  [h EXCEPT ![node].key = h[t].key,
            ![node].value = h[t].value,
            ![node].flags = h[t].flags,
            ![t].flags = 0]

\* The rebalancing at the end of onion_dict_node_remove, step by step; r is
\* the heap and the node the variable node points to.
\* decrease_level(node); node=skew(node);
SkewNode(h, node) == skew(decrease_level(h, node), node)

\* if (node->right->right) node->right->right=skew(node->right->right);
SkewRightRight(r) ==
  IF r.h[r.h[r.ret].right].right # NULL
  THEN [h |-> SetRight(skew(r.h, r.h[r.h[r.ret].right].right), r.h[r.ret].right),
        ret |-> r.ret]
  ELSE r

\* if (node->right){ node->right=skew(node->right); ... }
SkewRight(r) ==
  IF r.h[r.ret].right # NULL
  THEN SkewRightRight([h |-> SetRight(skew(r.h, r.h[r.ret].right), r.ret), ret |-> r.ret])
  ELSE r

\* if (node->right) node->right=split(node->right); return node;
SplitRight(r) ==
  IF r.h[r.ret].right # NULL
  THEN [h |-> SetRight(split(r.h, r.h[r.ret].right), r.ret), ret |-> r.ret]
  ELSE r

RemoveRebalance(h, node) == SplitRight(SplitOf(SkewRight(SkewNode(h, node))))

\* The memory with the heap a tree operation left, and the node it returned.
WithHeap(m, r) == [m |-> [m EXCEPT !.h = r.h], ret |-> r.ret]
Rebalanced(m, node) == WithHeap(m, RemoveRebalance(m.h, node))

\* node->left = <returned node>;  node->right = <returned node>;
LinkLeft(r, node) == [r.m EXCEPT !.h[node].left = r.ret]
LinkRight(r, node) == [r.m EXCEPT !.h[node].right = r.ret]

\* key is the address of the string to compare with; the top-level call
\* compares with the caller's string, given by its bytes.
KeyBytes(m, key) == IF key.addr = NULL THEN key.bytes ELSE m.ks[key.addr]

RECURSIVE onion_dict_node_remove(_, _, _, _)

\* The "Real remove" branch, after onion_dict_node_data_free(&node->data).
RealRemove(m, g, node) ==
  IF m.h[node].left = NULL /\ m.h[node].right = NULL
  THEN [m |-> FreeNode(m, node), ret |-> NULL]
  ELSE IF m.h[node].left = NULL
  THEN Rebalanced(
         LinkRight(
           onion_dict_node_remove(
             [m EXCEPT !.h = MoveData(m.h, node, Leftmost(m.h, m.h[node].right))],
             g, m.h[node].right,
             [addr |-> m.h[Leftmost(m.h, m.h[node].right)].key, bytes |-> <<>>]),
           node),
         node)
  ELSE Rebalanced(
         LinkLeft(
           onion_dict_node_remove(
             [m EXCEPT !.h = MoveData(m.h, node, Rightmost(m.h, m.h[node].left))],
             g, m.h[node].left,
             [addr |-> m.h[Rightmost(m.h, m.h[node].left)].key, bytes |-> <<>>]),
           node),
         node)

\* The three branches on cmp=strcmp(key, node->data.key).
RemoveAt(m, g, node, key, cmp) ==
  IF cmp < 0
  THEN Rebalanced(LinkLeft(onion_dict_node_remove(m, g, m.h[node].left, key), node), node)
  ELSE IF cmp > 0
  THEN Rebalanced(LinkRight(onion_dict_node_remove(m, g, m.h[node].right, key), node), node)
  ELSE RealRemove(onion_dict_node_data_free(m, g, node), g, node)

onion_dict_node_remove(m, g, node, key) ==
  IF node = NULL THEN [m |-> m, ret |-> NULL]
  ELSE RemoveAt(m, g, node, key, strcmp(KeyBytes(m, key), m.ks[m.h[node].key]))

\* --------------------------------------------------------------- destroy
\* onion_dict_node_data_free(&node->data); free(node);
FreeDataAndNode(m, node) == FreeNode(onion_dict_node_data_free(m, <<>>, node), node)

RECURSIVE onion_dict_node_free(_, _)

\* if (node->right) onion_dict_node_free(node->right);
FreeRightOf(m, node) ==
  IF m.h[node].right # NULL THEN onion_dict_node_free(m, m.h[node].right) ELSE m

onion_dict_node_free(m, node) ==
  FreeDataAndNode(
    FreeRightOf(IF m.h[node].left # NULL THEN onion_dict_node_free(m, m.h[node].left) ELSE m,
                node),
    node)

\* ------------------------------------------------------------------ read
RECURSIVE onion_dict_find_node(_, _, _, _)
onion_dict_find_node(h, ks, current, key) ==
  IF current = NULL THEN NULL
  ELSE LET cmp == SignedChar(strcmp(key, ks[h[current].key]))
       IN IF cmp = 0 THEN current
          ELSE IF cmp < 0 THEN onion_dict_find_node(h, ks, h[current].left, key)
          ELSE IF cmp > 0 THEN onion_dict_find_node(h, ks, h[current].right, key)
          ELSE NULL

\* Returns the address of the value string, or NULL.
onion_dict_get(h, ks, rt, key) ==
  LET r == onion_dict_find_node(h, ks, rt, key)
  IN IF r # NULL THEN h[r].value ELSE NULL

\* The visitor calls of onion_dict_node_preorder, in order: the node
\* addresses whose key and value are passed.
RECURSIVE onion_dict_node_preorder(_, _)
onion_dict_node_preorder(h, node) ==
  (IF h[node].left # NULL THEN onion_dict_node_preorder(h, h[node].left) ELSE <<>>)
  \o <<node>> \o
  (IF h[node].right # NULL THEN onion_dict_node_preorder(h, h[node].right) ELSE <<>>)

onion_dict_preorder(h, rt) ==
  IF rt = NULL THEN <<>> ELSE onion_dict_node_preorder(h, rt)

RECURSIVE onion_dict_node_count(_, _)
onion_dict_node_count(h, node) ==
  1 + (IF h[node].left # NULL THEN onion_dict_node_count(h, h[node].left) ELSE 0)
    + (IF h[node].right # NULL THEN onion_dict_node_count(h, h[node].right) ELSE 0)

onion_dict_count(h, rt) ==
  IF rt # NULL THEN onion_dict_node_count(h, rt) ELSE 0

\* The lines onion_dict_node_print_dot writes to stderr, in order: the key
\* address of the node, the key address of the child and the label.
RECURSIVE onion_dict_node_print_dot(_, _)
onion_dict_node_print_dot(h, node) ==
  (IF h[node].right # NULL
   THEN << <<h[node].key, h[h[node].right].key, "R">> >>
        \o onion_dict_node_print_dot(h, h[node].right)
   ELSE <<>>)
  \o
  (IF h[node].left # NULL
   THEN << <<h[node].key, h[h[node].left].key, "L">> >>
        \o onion_dict_node_print_dot(h, h[node].left)
   ELSE <<>>)

onion_dict_print_dot(h, rt) ==
  IF rt # NULL THEN onion_dict_node_print_dot(h, rt) ELSE <<>>

\* ----------------------------------------------------------- the machine
Range(f) == { f[i] : i \in DOMAIN f }

\* The nodes of the tree, and the bytes of a node's key.
TreeNodes == Range(onion_dict_preorder(nodes, root))
KeyOf(n) == kstr[nodes[n].key]

\* Key addresses held by more than one node of the tree: a free() of one
\* leaves the other node reading freed memory.
SharedKeys ==
  { nodes[n].key : n \in { x \in TreeNodes :
       \E y \in TreeNodes : y # x /\ nodes[y].key = nodes[x].key } }

NoOp == [op |-> "new", key |-> <<>>, ret |-> NULL]

\* onion_dict_new: an empty dict.
Init ==
  /\ alive = TRUE
  /\ root = NULL
  /\ nodes = <<>>
  /\ nfree = <<>>
  /\ kstr = <<>>
  /\ kfree = <<>>
  /\ vstr = <<>>
  /\ vfree = <<>>
  /\ calls = <<>>
  /\ refmap = [k \in Keys |-> NULL]
  /\ dupAdded = FALSE
  /\ last = NoOp

\* onion_dict_add(dict, key, value, flags); the value of the n-th call is n.
\* r is what onion_dict_node_add returned for node n; ks the key memory with
\* the caller's key string and its copy, if one was made.
AddResult(r, ks, n, key, flags) ==
  /\ nodes' = r.h
  /\ root' = r.ret
  /\ kstr' = ks
  /\ vstr' = vstr \o << n, IF BitAnd(flags, OD_DUP_VALUE) = OD_DUP_VALUE THEN n ELSE NULL >>
  /\ nfree' = Append(nfree, 0)
  /\ kfree' = kfree \o <<0, 0>>
  /\ vfree' = vfree \o <<0, 0>>
  /\ calls' = Append(calls, [key |-> key, flags |-> flags])
  /\ refmap' = [refmap EXCEPT ![key] = n]
  /\ dupAdded' = (dupAdded \/ \E x \in TreeNodes : KeyOf(x) = key)
  /\ last' = [op |-> "add", key |-> key, ret |-> NULL]
  /\ UNCHANGED alive

AddWith(ks, n, key, flags) ==
  AddResult(onion_dict_add(nodes, ks, root, n, flags), ks, n, key, flags)

Add(key, flags, max) ==
  /\ alive
  /\ Len(calls) < max
  /\ AddWith(kstr \o << key, IF BitAnd(flags, OD_DUP_KEY) = OD_DUP_KEY THEN key ELSE <<>> >>,
             Len(calls) + 1, key, flags)

\* A remove that returns whether a node with the key was there, as the
\* comment above onion_dict_remove has it.
RemoveResult_ReportFound(r, key) ==
  /\ root' = r.ret
  /\ nodes' = r.m.h
  /\ nfree' = r.m.nf
  /\ kstr' = r.m.ks
  /\ kfree' = r.m.kf
  /\ vfree' = r.m.vf
  /\ refmap' = [refmap EXCEPT ![key] = NULL]
  /\ last' = [op |-> "remove", key |-> key,
              ret |-> IF \E n \in TreeNodes : KeyOf(n) = key THEN 1 ELSE 0]
  /\ UNCHANGED <<alive, vstr, calls, dupAdded>>

\* onion_dict_remove(dict, key); r is what onion_dict_node_remove returned.
RemoveResult(r, key) ==
  /\ root' = r.ret
  /\ nodes' = r.m.h
  /\ nfree' = r.m.nf
  /\ kstr' = r.m.ks
  /\ kfree' = r.m.kf
  /\ vfree' = r.m.vf
  /\ refmap' = [refmap EXCEPT ![key] = NULL]
  /\ last' = [op |-> "remove", key |-> key, ret |-> 1]
  /\ UNCHANGED <<alive, vstr, calls, dupAdded>>

Remove(key) ==
  /\ alive
  /\ \E g \in [SharedKeys -> Keys] :
       RemoveResult(onion_dict_node_remove(Mem, g, root, [addr |-> NULL, bytes |-> key]), key)

\* onion_dict_free(dict); m is the memory onion_dict_node_free left.
FreeResult(m) ==
  /\ nodes' = m.h
  /\ nfree' = m.nf
  /\ kstr' = m.ks
  /\ kfree' = m.kf
  /\ vfree' = m.vf
  /\ alive' = FALSE
  /\ last' = [op |-> "free", key |-> <<>>, ret |-> NULL]
  /\ UNCHANGED <<root, vstr, calls, refmap, dupAdded>>

Free ==
  /\ alive
  /\ FreeResult(IF root # NULL THEN onion_dict_node_free(Mem, root) ELSE Mem)

\* A get that takes the entry out of the dict as it returns its value.
Get_Take(key) ==
  /\ alive
  /\ \E g \in [SharedKeys -> Keys] :
       LET r == onion_dict_node_remove(Mem, g, root, [addr |-> NULL, bytes |-> key])
       IN /\ root' = r.ret
          /\ nodes' = r.m.h
          /\ nfree' = r.m.nf
          /\ kstr' = r.m.ks
          /\ kfree' = r.m.kf
          /\ vfree' = r.m.vf
  /\ last' = [op |-> "get", key |-> key, ret |-> onion_dict_get(nodes, kstr, root, key)]
  /\ UNCHANGED <<alive, vstr, calls, refmap, dupAdded>>

\* onion_dict_get(dict, key)
Get(key) ==
  /\ alive
  /\ last' = [op |-> "get", key |-> key, ret |-> onion_dict_get(nodes, kstr, root, key)]
  /\ UNCHANGED <<alive, root, nodes, nfree, kstr, kfree, vstr, vfree, calls, refmap, dupAdded>>

\* onion_dict_count(dict)
Count ==
  /\ alive
  /\ last' = [op |-> "count", key |-> <<>>, ret |-> onion_dict_count(nodes, root)]
  /\ UNCHANGED <<alive, root, nodes, nfree, kstr, kfree, vstr, vfree, calls, refmap, dupAdded>>

\* onion_dict_preorder(dict, func, data): ret is the sequence of (key, value)
\* addresses the visitor was called with.
Preorder ==
  /\ alive
  /\ last' = [op |-> "preorder", key |-> <<>>,
              ret |-> [i \in DOMAIN onion_dict_preorder(nodes, root) |->
                         LET n == onion_dict_preorder(nodes, root)[i]
                         IN <<nodes[n].key, nodes[n].value>>]]
  /\ UNCHANGED <<alive, root, nodes, nfree, kstr, kfree, vstr, vfree, calls, refmap, dupAdded>>

\* onion_dict_print_dot(dict): ret is the output written.
PrintDot ==
  /\ alive
  /\ last' = [op |-> "print_dot", key |-> <<>>, ret |-> onion_dict_print_dot(nodes, root)]
  /\ UNCHANGED <<alive, root, nodes, nfree, kstr, kfree, vstr, vfree, calls, refmap, dupAdded>>

\* Entries inserted with copy-and-own flags.
Next ==
  \/ \E key \in Keys : Add(key, OD_DUP_ALL, MaxAdds)
  \/ \E key \in Keys : Remove(key)
  \/ Free

Spec == Init /\ [][Next]_vars

\* Entries inserted with any of the flag combinations.
NextFlags ==
  \/ \E key \in KeysFlags, flags \in FlagsIn : Add(key, flags, MaxAddsFlags)
  \/ \E key \in KeysFlags : Remove(key)
  \/ Free

SpecFlags == Init /\ [][NextFlags]_vars

\* The read operations as well.
NextRead ==
  \/ \E key \in KeysFlags : Add(key, OD_DUP_ALL, MaxAddsFlags)
  \/ \E key \in KeysFlags : Remove(key)
  \/ Free
  \/ \E key \in KeysFlags : Get(key)
  \/ Count
  \/ Preorder
  \/ PrintDot

SpecRead == Init /\ [][NextRead]_vars

\* ============================================================ properties
\* The nodes of the subtree rooted at node (empty for NULL).
Subtree(node) == IF node = NULL THEN {} ELSE Range(onion_dict_node_preorder(nodes, node))

Left(n) == nodes[n].left
Right(n) == nodes[n].right
Level(n) == nodes[n].level

\* The stored entries as (key bytes, value content) pairs, with the number of
\* nodes holding each.
EntryOf(h, ks, vs, n) == <<ks[h[n].key], vs[h[n].value]>>
EntryCount(h, ks, vs, rt, e) ==
  Cardinality({ n \in Range(onion_dict_preorder(h, rt)) : EntryOf(h, ks, vs, n) = e })
AllEntries == Keys \X (0 .. MaxAdds)

\* C1: after every add and remove the AA-tree level invariants hold for every
\* node: a node without children has level 1, a left child is exactly one
\* level below its parent, a right child is at its parent's level or one
\* below, and a right child's right child is strictly below the grandparent.
C1_LevelInvariants ==
  alive =>
    \A n \in TreeNodes :
      /\ (Left(n) = NULL /\ Right(n) = NULL) => Level(n) = 1
      /\ Left(n) # NULL => Level(Left(n)) = Level(n) - 1
      /\ Right(n) # NULL => Level(Right(n)) \in { Level(n), Level(n) - 1 }
      /\ (Right(n) # NULL /\ Right(Right(n)) # NULL) => Level(Right(Right(n))) < Level(n)

\* A removal that freed a node of a tree with duplicate keys and left a
\* two-level tree behind.
C1_Witness ==
  /\ alive /\ last.op = "remove" /\ dupAdded
  /\ root # NULL /\ Level(root) = 2
  /\ \E n \in DOMAIN nfree : nfree[n] = 1

\* The binary-search-tree property with a strict left side.
StrictBST ==
  \A n \in TreeNodes :
    /\ \A x \in Subtree(Left(n)) : strcmp(KeyOf(x), KeyOf(n)) < 0
    /\ \A x \in Subtree(Right(n)) : strcmp(KeyOf(x), KeyOf(n)) >= 0

\* C2 as stated: after every add and remove, duplicates included, every key
\* in a node's left subtree is strictly less than the node's key and every
\* key in its right subtree is greater or equal.
C2_Original == alive => StrictBST

\* C2 amended: the same, for the sequences in which add is never called with
\* a key that is present.
C2_StrictBSTUniqueKeys == (alive /\ ~dupAdded) => StrictBST

\* Never a present key added, a removal done, and a tree of three nodes one
\* of which was added after the removal.
C2_Witness ==
  /\ alive /\ ~dupAdded /\ last.op = "add"
  /\ Cardinality(TreeNodes) = 3
  /\ \E n \in DOMAIN nfree : nfree[n] = 1

\* A key is stored in the tree.
Present(key) == \E n \in TreeNodes : KeyOf(n) = key

\* The step removed exactly one entry with the key and changed no other.
RemovedOne(key) ==
  \E n \in TreeNodes :
    /\ KeyOf(n) = key
    /\ \A e \in AllEntries :
         EntryCount(nodes', kstr', vstr', root', e) =
           EntryCount(nodes, kstr, vstr, root, e)
             - (IF e = EntryOf(nodes, kstr, vstr, n) THEN 1 ELSE 0)

\* C3: onion_dict_remove of a present key, duplicates allowed, deletes exactly
\* one entry with that key: the multiset of (key, value) entries after the
\* call is the multiset before minus one entry with the removed key.
C3_RemoveDeletesOneEntry ==
  [][(alive /\ last'.op = "remove" /\ Present(last'.key)) => RemovedOne(last'.key)]_vars

\* What onion_dict_get returns, as content: the value string's content, or
\* NULL for not found.
GetValue(key) ==
  LET v == onion_dict_get(nodes, kstr, root, key)
  IN IF v = NULL THEN NULL ELSE vstr[v]

\* C4: in every sequence in which add is never called with a present key the
\* dict behaves as a reference map: onion_dict_get(k) returns the value most
\* recently added for k and not removed since, and not found otherwise.
C4_ReferenceMap ==
  (alive /\ ~dupAdded) => \A k \in Keys : GetValue(k) = refmap[k]

\* C5: onion_dict_get(key) immediately after onion_dict_add(key, value, flags)
\* returns the value just added.  Stated for the adds of a key that was not
\* present, where no older entry with the key can be the one returned.
C5_GetAfterAdd ==
  (alive /\ last.op = "add" /\ ~dupAdded) => GetValue(last.key) = Len(calls)

\* C6: onion_dict_add always creates a new node, also for a present key: the
\* count grows by exactly one and every entry stored before is still stored
\* with its value, next to the new one.
C6_AddCreatesNode ==
  [][(last'.op = "add" /\ Len(calls') = Len(calls) + 1) =>
       /\ onion_dict_count(nodes', root') = onion_dict_count(nodes, root) + 1
       /\ \A e \in AllEntries :
            EntryCount(nodes', kstr', vstr', root', e) =
              EntryCount(nodes, kstr, vstr, root, e)
                + (IF e = <<last'.key, Len(calls')>> THEN 1 ELSE 0)]_vars

\* The same key added twice in a row, to a dict that now counts three.
C6_Witness ==
  /\ alive /\ last.op = "add" /\ dupAdded
  /\ Len(calls) >= 2
  /\ calls[Len(calls)].key = calls[Len(calls) - 1].key
  /\ onion_dict_count(nodes, root) = 3

\* C7: onion_dict_remove of a key the dict does not hold is a no-op: links,
\* levels, keys, values and flags are unchanged and nothing is freed.
C7_RemoveAbsentNoOp ==
  [][(alive /\ last'.op = "remove" /\ ~Present(last'.key)) =>
       UNCHANGED <<root, nodes, nfree, kstr, kfree, vstr, vfree>>]_vars

\* A removal of an absent key from a dict of three nodes none of which was
\* ever freed.
C7_Witness ==
  /\ alive /\ last.op = "remove" /\ ~Present(last.key)
  /\ Cardinality(TreeNodes) = 3
  /\ \A n \in DOMAIN nfree : nfree[n] = 0

\* The flags the i-th add was called with have the free bit of the key/value.
FreesKey(i) == BitAnd(calls[i].flags, OD_FREE_KEY) # 0
FreesValue(i) == BitAnd(calls[i].flags, OD_FREE_VALUE) # 0

\* The strings the i-th add stored in its node.
StoredKey(i) == IF BitAnd(calls[i].flags, OD_DUP_KEY) = OD_DUP_KEY THEN DupStr(i) ELSE ArgStr(i)
StoredValue(i) == IF BitAnd(calls[i].flags, OD_DUP_VALUE) = OD_DUP_VALUE THEN DupStr(i) ELSE ArgStr(i)

\* C8: with every entry added copy-and-own, no duplicated key, duplicated
\* value or node is ever freed twice, and once onion_dict_free has run each of
\* them has been freed exactly once.
C8_FreedExactlyOnce ==
  \A i \in 1 .. Len(calls) :
    /\ kfree[DupStr(i)] <= 1 /\ vfree[DupStr(i)] <= 1 /\ nfree[i] <= 1
    /\ ~alive => (kfree[DupStr(i)] = 1 /\ vfree[DupStr(i)] = 1 /\ nfree[i] = 1)

\* The dict was destroyed while a node held the key and value that a removal
\* had relocated into it from another node.
C8_Witness ==
  /\ ~alive /\ Len(calls) >= 3
  /\ \E n \in TreeNodes : nodes[n].key # DupStr(n) /\ nodes[n].value # DupStr(n)

\* The bytes of the keys the visitor of onion_dict_preorder is called with.
PreorderKeys ==
  [i \in DOMAIN onion_dict_preorder(nodes, root) |-> KeyOf(onion_dict_preorder(nodes, root)[i])]

\* C9: onion_dict_preorder calls the visitor exactly onion_dict_count times,
\* and the keys it passes are in non-decreasing lexicographic order.
C9_PreorderSorted ==
  alive =>
    /\ Len(PreorderKeys) = onion_dict_count(nodes, root)
    /\ \A i \in 1 .. Len(PreorderKeys) - 1 : strcmp(PreorderKeys[i], PreorderKeys[i + 1]) <= 0

\* C10: a key or value inserted with its free flag not set is never freed by
\* the container, whatever the flag of the other string of the entry is, and
\* a caller's string that was duplicated is never freed either.
C10_BorrowedNeverFreed ==
  \A i \in 1 .. Len(calls) :
    /\ ~FreesKey(i) => (kfree[ArgStr(i)] = 0 /\ kfree[DupStr(i)] = 0)
    /\ ~FreesValue(i) => (vfree[ArgStr(i)] = 0 /\ vfree[DupStr(i)] = 0)
    /\ StoredKey(i) # ArgStr(i) => kfree[ArgStr(i)] = 0
    /\ StoredValue(i) # ArgStr(i) => vfree[ArgStr(i)] = 0

\* The dict was destroyed after an entry with a borrowed key and an owned
\* value had been relocated into another node: its value was freed, its key
\* was not.
C10_Witness ==
  /\ ~alive
  /\ \E i \in 1 .. Len(calls) :
       /\ ~FreesKey(i) /\ FreesValue(i)
       /\ vfree[StoredValue(i)] = 1 /\ kfree[StoredKey(i)] = 0
       /\ \E n \in TreeNodes : n # i /\ nodes[n].key = StoredKey(i)

\* The binary-search-tree property with equal keys allowed on both sides.
WeakBST ==
  \A n \in TreeNodes :
    /\ \A x \in Subtree(Left(n)) : strcmp(KeyOf(x), KeyOf(n)) <= 0
    /\ \A x \in Subtree(Right(n)) : strcmp(KeyOf(x), KeyOf(n)) >= 0

\* No node of the tree holds a key string that has been freed.
NoFreedKeyInTree == \A n \in TreeNodes : kfree[nodes[n].key] = 0

C12_NoFreedNoShared ==
  alive =>
    /\ \A n \in TreeNodes : kfree[nodes[n].key] = 0 /\ vfree[nodes[n].value] = 0
    /\ \A x, y \in TreeNodes :
         x # y => (nodes[x].key # nodes[y].key /\ nodes[x].value # nodes[y].value)

\* The nodes reachable from dict->root by following left and right at most
\* k times, computed without assuming that the links form a tree.
Children(S) ==
  { c \in DOMAIN nodes : \E p \in S : nodes[p].left = c \/ nodes[p].right = c }

RECURSIVE ReachIn(_, _)
ReachIn(S, k) == IF k = 0 THEN S ELSE ReachIn(S \cup Children(S), k - 1)

Reachable == IF root = NULL THEN {} ELSE ReachIn({root}, Len(nodes))

\* The links of reachable nodes that point to n, as (parent, side) pairs.
LinksTo(n) ==
  { l \in Reachable \X {"left", "right"} :
      (IF l[2] = "left" THEN nodes[l[1]].left ELSE nodes[l[1]].right) = n }

\* C13: after every add and remove the nodes reachable from the root form a
\* tree: every reachable node is allocated, the root has no parent and every
\* other reachable node exactly one (no sharing, no cycle), and a node is
\* freed exactly when a removal spliced it out or the dict was destroyed.
C13_TreeShape ==
  /\ alive =>
       /\ \A n \in Reachable :
            /\ nfree[n] = 0
            /\ Cardinality(LinksTo(n)) = (IF n = root THEN 0 ELSE 1)
       /\ \A n \in DOMAIN nodes \ Reachable : nfree[n] = 1
  /\ ~alive => \A n \in DOMAIN nodes : nfree[n] = 1

\* A removal in a dict with duplicate keys spliced a node out and left a
\* tree of three nodes, one of them holding data relocated from another.
C13_Witness ==
  /\ alive /\ last.op = "remove" /\ dupAdded
  /\ Cardinality(Reachable) = 3
  /\ \E n \in DOMAIN nfree : nfree[n] = 1
  /\ \E n \in Reachable : nodes[n].key # DupStr(n)

\* The branch a comparison result selects: onion_dict_find_node and
\* onion_dict_node_remove go left on cmp<0, right on cmp>0 and stop on 0.
Side(cmp) == IF cmp < 0 THEN "left" ELSE IF cmp > 0 THEN "right" ELSE "match"

\* cmp as onion_dict_find_node holds it (signed char) and as
\* onion_dict_node_add and onion_dict_node_remove hold it (int).
FindCmp(key, n) == SignedChar(strcmp(key, KeyOf(n)))
AddRemoveCmp(key, n) == strcmp(key, KeyOf(n))

\* C14: for every pair of keys whose comparison result is the difference of
\* the first differing bytes, the direction onion_dict_find_node takes at a
\* node is the direction onion_dict_node_add and onion_dict_node_remove take
\* for the same pair, so a get of a key that add placed, in a dict whose keys
\* are all different and unfreed, finds it.
C14_SameDirection ==
  alive =>
    /\ \A n \in TreeNodes, k \in Keys : Side(FindCmp(k, n)) = Side(AddRemoveCmp(k, n))
    /\ (last.op = "get" /\ ~dupAdded /\ Present(last.key)) => last.ret # NULL

\* The number of nodes on the longest path from node down to a leaf.
RECURSIVE Height(_)
Height(node) ==
  IF node = NULL THEN 0
  ELSE 1 + (IF Height(Left(node)) > Height(Right(node))
            THEN Height(Left(node)) ELSE Height(Right(node)))

\* floor(log2(n)) for n >= 1.
RECURSIVE FloorLog2(_)
FloorLog2(n) == IF n <= 1 THEN 0 ELSE 1 + FloorLog2(n \div 2)

\* C15: after any sequence of adds and removes that leaves n >= 1 entries the
\* root's level is at most floor(log2(n+1)) and the longest root-to-leaf path
\* has at most twice the root's level nodes.
C15_LogHeight ==
  (alive /\ root # NULL) =>
    /\ Level(root) <= FloorLog2(onion_dict_count(nodes, root) + 1)
    /\ Height(root) <= 2 * Level(root)

\* A removal left three entries under a root of level 2 = floor(log2(4)),
\* both bounds met with the level at its maximum.
C15_Witness ==
  /\ alive /\ last.op = "remove" /\ root # NULL
  /\ onion_dict_count(nodes, root) = 3
  /\ Level(root) = 2 /\ Height(root) = 2

\* The (key, value) pairs a run of onion_dict_preorder on the current dict
\* calls the visitor with, as addresses and as contents.
VisitorCalls ==
  [i \in DOMAIN onion_dict_preorder(nodes, root) |->
     <<nodes[onion_dict_preorder(nodes, root)[i]].key,
       nodes[onion_dict_preorder(nodes, root)[i]].value>>]

VisitorCallsContent ==
  [i \in DOMAIN VisitorCalls |-> <<kstr[VisitorCalls[i][1]], vstr[VisitorCalls[i][2]]>>]

ReadOps == { "get", "count", "preorder", "print_dot" }

\* C16: onion_dict_get, onion_dict_count, onion_dict_preorder and
\* onion_dict_print_dot leave the dict unchanged (links, levels, keys, values,
\* flags, and the memory they point to), so a second onion_dict_preorder on
\* the dict a first one left calls the visitor with the same sequence of
\* (key, value) pairs.
C16_ReadsLeaveDictUnchanged ==
  [][last'.op \in ReadOps =>
       /\ UNCHANGED <<alive, root, nodes, nfree, kstr, kfree, vstr, vfree>>
       /\ VisitorCallsContent' = VisitorCallsContent
       /\ last'.op = "preorder" => VisitorCalls' = last'.ret]_vars

\* A preorder over the two entries a removal left: a second run on the dict
\* as it is now gives the pairs the first returned.
C16_Witness ==
  /\ alive /\ last.op = "preorder"
  /\ Len(last.ret) = 2 /\ last.ret = VisitorCalls
  /\ \E n \in DOMAIN nfree : nfree[n] = 1

====
